---- MODULE Spec2Model ----
(***************************************************************************)
(* A model of the redditlang front end and mid end:                        *)
(*   - the AST builder (src/src/parser/from_pair.rs): one operator per     *)
(*     `impl Parse for T`, applied to syntax pairs;                        *)
(*   - the CFG compiler (src/src/compiler/mod.rs) driven by cook           *)
(*     (src/src/main.rs).                                                  *)
(* A syntax pair is a record [rule, pos, str, inner]: the rule tag, the    *)
(* start position of its span, its text as a sequence of characters, and   *)
(* its ordered children.                                                   *)
(*                                                                         *)
(* A builder X::parse_from is written as two operators: X_parse_from       *)
(* computes the parts in the order of the code, and X_of is the control    *)
(* flow on them: the first part that ends the process decides the result.  *)
(***************************************************************************)
EXTENDS Integers, Sequences, FiniteSets, TLC

VARIABLES
    call,           \* the parse_from implementation the pair is dispatched to
    pair,           \* the syntax pair it is handed
    outcome,        \* what it returned, or how the build ended
    tree,           \* the Tree cook compiles
    todo,           \* the nodes of it compile has not reached
    compile_meta,   \* the state of the function compilation
    status,         \* Idle, Compiling, Aborted, Built, Verified, Written, Linked,
                    \* Running, Exited
    build,          \* what cook reported, wrote and linked
    pc,             \* the instruction the built program is at
    cond,           \* the value of the condition it evaluated last
    taken           \* per if chain, the if node whose body the run is in

vars == <<call, pair, outcome, tree, todo, compile_meta, status, build, pc, cond, taken>>

\* the variables of the compilation, which the builder leaves alone
cvars == <<tree, todo, compile_meta, status, build, pc, cond, taken>>

(***************************************************************************)
(* Bounds of the model.                                                    *)
(***************************************************************************)
MaxDigits == 2      \* digits in a numeric magnitude
MaxMods == 2        \* modifier tokens in a declaration
MaxArgs == 3        \* arguments in a function declaration
MaxTerms == 3       \* operands in an operator chain
MaxCases == 2       \* if / else-if cases in an if chain of the builder's input
MaxNest == 3        \* nesting depth of loops and if chains in a compiled tree
MaxChain == 3       \* cases in a compiled if chain
MaxStmts == 4       \* statements in a straight-line compiled tree

(***************************************************************************)
(* Syntax pairs and results.                                               *)
(***************************************************************************)
Pair(rule, pos, str, inner) ==
    [rule |-> rule, pos |-> pos, str |-> str, inner |-> inner]

\* A result of a builder: kind is "Some" (a value), "None", or the way the
\* process ended: "SyntaxError" (errors::syntax_error), "Bug" (bug!) or
\* "Panic" (unwrap/expect on nothing).
Result(kind, msg, pos, value) ==
    [kind |-> kind, msg |-> msg, pos |-> pos, value |-> value]

Some(value) == Result("Some", "", 0, value)
None == Result("None", "", 0, <<>>)
syntax_error(msg, pos) == Result("SyntaxError", msg, pos, <<>>)
bug(msg) == Result("Bug", msg, 0, <<>>)
Panic(msg) == Result("Panic", msg, 0, <<>>)

\* Option::unwrap
unwrap(r) ==
    IF r.kind = "None" THEN Panic("unwrap on None") ELSE r

\* Option::expect
expect(r, msg) ==
    IF r.kind = "None" THEN Panic(msg) ELSE r

Aborted(r) == r.kind \in {"SyntaxError", "Bug", "Panic"}

\* Option::map / Option::and_then on a result: <<>> for None, <<v>> for Some(v)
AsOption(r) == IF r.kind = "Some" THEN <<r.value>> ELSE <<>>

(***************************************************************************)
(* Text helpers.                                                           *)
(***************************************************************************)
DigitChars == {"0", "1", "2", "3", "4", "5", "6", "7", "8", "9"}

DigitVal(c) ==
    CASE c = "0" -> 0 [] c = "1" -> 1 [] c = "2" -> 2 [] c = "3" -> 3
      [] c = "4" -> 4 [] c = "5" -> 5 [] c = "6" -> 6 [] c = "7" -> 7
      [] c = "8" -> 8 [] c = "9" -> 9

RECURSIVE DecimalValue(_)
DecimalValue(s) ==
    IF s = <<>> THEN 0
    ELSE 10 * DecimalValue(SubSeq(s, 1, Len(s) - 1)) + DigitVal(s[Len(s)])

\* str::parse::<Number>() of an unsigned magnitude
ParseNumber(s) ==
    IF s # <<>> /\ \A i \in 1..Len(s) : s[i] \in DigitChars
    THEN Some(DecimalValue(s))
    ELSE None

\* str::trim_end
RECURSIVE trim_end(_)
trim_end(s) ==
    IF s # <<>> /\ s[Len(s)] = " " THEN trim_end(SubSeq(s, 1, Len(s) - 1))
    ELSE s

\* enquote::unquote of a literal without escapes: the text between two
\* matching quote characters
unquote(s) ==
    IF Len(s) >= 2 /\ s[1] \in {"'", "\""} /\ s[Len(s)] = s[1]
       /\ \A i \in 2..(Len(s) - 1) : s[i] # s[1]
    THEN Some(SubSeq(s, 2, Len(s) - 1))
    ELSE None

\* Iterator::map(f).collect() over results that may end the process: the
\* first element whose mapping aborts ends the build
RECURSIVE FirstAbort(_)
FirstAbort(rs) ==
    IF rs = <<>> THEN None
    ELSE IF Aborted(rs[1]) THEN rs[1]
    ELSE FirstAbort(Tail(rs))

Collected(rs, a) ==
    IF Aborted(a) THEN a ELSE Some([i \in 1..Len(rs) |-> rs[i].value])

Collect(rs) == Collected(rs, FirstAbort(rs))

\* slice::chunks(2)
RECURSIVE chunks2(_)
chunks2(s) ==
    IF s = <<>> THEN <<>>
    ELSE IF Len(s) = 1 THEN <<s>>
    ELSE <<SubSeq(s, 1, 2)>> \o chunks2(SubSeq(s, 3, Len(s)))

(***************************************************************************)
(* impl Parse for Ident                                                    *)
(***************************************************************************)
Ident_parse_from(p) == Some(p.str)

(***************************************************************************)
(* impl Parse for Term.  A Term is <<"String", s>>, <<"Number", n>> or     *)
(* <<"Ident", name>>.                                                      *)
(***************************************************************************)
SignNegativeDropped(sign) ==
    CASE sign.rule = "Add" -> Some(FALSE)
      [] sign.rule = "Subtract" -> Some(FALSE)
      [] OTHER -> bug("INVALID_SIGN")

\* the closure of lines 93-97: Add is positive, Subtract negative
SignIsNegative(sign) ==
    CASE sign.rule = "Add" -> Some(FALSE)
      [] sign.rule = "Subtract" -> Some(TRUE)
      [] OTHER -> bug("INVALID_SIGN")

Number_of(is_negative, magnitude) ==
    IF Aborted(is_negative) THEN is_negative
    ELSE IF Aborted(magnitude) THEN magnitude
    ELSE Some(<<"Number",
                IF is_negative.value THEN -magnitude.value ELSE magnitude.value>>)

\* has_sign is inner.len() == 2: the sign is then the first child and the
\* magnitude the second; otherwise the magnitude is the first child
Number_arm(p) ==
    Number_of(IF Len(p.inner) = 2 THEN SignIsNegative(p.inner[1]) ELSE Some(FALSE),
              IF p.inner = <<>> THEN Panic("unwrap on None")
              ELSE unwrap(ParseNumber(p.inner[IF Len(p.inner) = 2 THEN 2 ELSE 1].str)))

String_of(u) ==
    IF Aborted(u) THEN u ELSE Some(<<"String", u.value>>)

Term_parse_from(p) ==
    CASE p.rule = "String" -> String_of(unwrap(unquote(p.str)))
      [] p.rule = "UNumber" -> None
      [] p.rule = "Number" -> Number_arm(p)
      [] p.rule = "Ident" -> Some(<<"Ident", unwrap(Ident_parse_from(p)).value>>)
      [] p.rule = "Expr" -> None
      [] OTHER -> None

(***************************************************************************)
(* impl Parse for Call, Import and IndexExpr: the callers that unwrap a    *)
(* Term.  An Index is <<"Number", n>> or <<"String", s>>.                  *)
(***************************************************************************)
\* line 127: the term is the first child of the argument
CallArgOf(x) ==
    IF x.inner = <<>> THEN Panic("unwrap on None")
    ELSE unwrap(Term_parse_from(x.inner[1]))

Call_of(ident, args) ==
    IF Aborted(ident) THEN ident
    ELSE IF Aborted(args) THEN args
    ELSE Some([ident |-> ident.value, args |-> args.value])

Call_parse_from(p) ==
    Call_of(unwrap(Ident_parse_from(p.inner[1])),
            Collect([i \in 1..Len(p.inner[2].inner) |-> CallArgOf(p.inner[2].inner[i])]))

Import_of(path) ==
    IF Aborted(path) THEN path ELSE Some([path |-> path.value])

Import_parse_from(p) == Import_of(unwrap(Term_parse_from(p.inner[1])))

\* lines 356-360
IndexOf(index) ==
    IF Aborted(index) THEN index
    ELSE IF index.value[1] \in {"Number", "String"} THEN Some(index.value)
    ELSE bug("INVALID_INDEX_TERM")

IndexExpr_of(term, index) ==
    IF Aborted(term) THEN term
    ELSE IF Aborted(index) THEN index
    ELSE Some([term |-> term.value, index |-> index.value])

IndexExpr_parse_from(p) ==
    IndexExpr_of(unwrap(Term_parse_from(p.inner[1])),
                 IndexOf(unwrap(Term_parse_from(p.inner[2]))))

(***************************************************************************)
(* impl Parse for Declaration                                              *)
(***************************************************************************)
Type_of(x) ==
    [ident |-> unwrap(Ident_parse_from(x[1])).value, is_array |-> Len(x) >= 2]

Declaration_parse_from(p) ==
    Some([ident |-> unwrap(Ident_parse_from(p.inner[1])).value,
          type |-> IF Len(p.inner) >= 2 THEN <<Type_of(p.inner[2].inner)>> ELSE <<>>])

(***************************************************************************)
(* impl Parse for BinaryExpr and ConditionalExpr.  A term of either is     *)
(* [operand, operator] with operator <<>> for None and <<op>> for Some(op).*)
(***************************************************************************)
MathOperatorOfSlip(x) ==
    LET rule == x.inner[1].rule
    IN  IF rule \in {"Add", "Subtract", "Multiply", "Divide", "XOR"}
        THEN Some(IF rule = "Subtract" THEN "Add" ELSE rule)
        ELSE bug("UNKNOWN_OPERATOR")

MathOperatorOf(x) ==
    LET rule == x.inner[1].rule
    IN  IF rule \in {"Add", "Subtract", "Multiply", "Divide", "XOR"}
        THEN Some(rule)
        ELSE bug("UNKNOWN_OPERATOR")

\* first, second: the parts of a term in the order the code evaluates them
Term_of(first, second, operand, operator) ==
    IF Aborted(first) THEN first
    ELSE IF Aborted(second) THEN second
    ELSE Some([operand |-> operand.value, operator |-> AsOption(operator)])

\* the closure of lines 225-238 on one chunk: the operator, then the operand
BinaryExprTerm_of(operator, operand) == Term_of(operator, operand, operand, operator)

BinaryExprTermOf(x) ==
    BinaryExprTerm_of(IF Len(x) = 2 THEN MathOperatorOf(x[1]) ELSE None,
                      unwrap(Term_parse_from(x[Len(x)])))

Expr_of(kind, terms) ==
    IF Aborted(terms) THEN terms ELSE Some([kind |-> kind, terms |-> terms.value])

\* the chunking of src/src/from_pair.rs (an earlier revision): operand
\* first, then the operator that follows it
BinaryExprTermOperandFirst(x) ==
    BinaryExprTerm_of(IF Len(x) = 2 THEN MathOperatorOf(x[2]) ELSE None,
                      unwrap(Term_parse_from(x[1])))

BinaryExpr_parse_from_operand_first(p) ==
    Expr_of("BinaryExpr",
            Collect([i \in 1..Len(chunks2(p.inner)) |->
                        BinaryExprTermOperandFirst(chunks2(p.inner)[i])]))

\* lines 216-220: the first child alone, then the rest in chunks of two
FirstThenChunks(pairs) == <<(<<pairs[1]>>)>> \o chunks2(Tail(pairs))

BinaryExpr_parse_from(p) ==
    IF p.inner = <<>> THEN Panic("removal index out of bounds")
    ELSE Expr_of("BinaryExpr",
                 Collect([i \in 1..Len(FirstThenChunks(p.inner)) |->
                            BinaryExprTermOf(FirstThenChunks(p.inner)[i])]))

ConditionalOperatorOf(x) ==
    LET rule == x.inner[1].rule
    IN  CASE rule = "Equality" -> Some("Equality")
          [] rule = "Inequality" -> Some("AntiEquality")
          [] OTHER -> bug("UNKNOWN_COND_OPERATOR")

\* the closure of lines 251-261 on one chunk: the operand, then the operator
ConditionExprTerm_of(operand, operator) == Term_of(operand, operator, operand, operator)

ConditionExprTermOf(x) ==
    ConditionExprTerm_of(unwrap(Term_parse_from(x[1])),
                         IF Len(x) = 2 THEN ConditionalOperatorOf(x[2]) ELSE None)

ConditionalExpr_parse_from(p) ==
    Expr_of("ConditionalExpr",
            Collect([i \in 1..Len(chunks2(p.inner)) |->
                        ConditionExprTermOf(chunks2(p.inner)[i])]))

(***************************************************************************)
(* parser::parse_one: the generic node [variant, value] of a pair, by its  *)
(* rule tag.  An expression is built here; the node of a statement         *)
(* sub-tree, taken to be well formed, is kept as its variant and the place *)
(* it starts at.  A pair with no node (end of input) gives None.           *)
(***************************************************************************)
StatementRules ==
    {"Loop", "Break", "Function", "Call", "Throw", "Import", "Module", "TryCatch",
     "Variable", "Assignment", "If", "Class", "Return"}

Node(variant, r) ==
    IF Aborted(r) THEN r ELSE Some([variant |-> variant, value |-> r.value])

ParseOne(p) ==
    CASE p.rule = "BinaryExpr" -> Node("Expr", BinaryExpr_parse_from(p))
      [] p.rule = "ConditionalExpr" -> Node("Expr", ConditionalExpr_parse_from(p))
      [] p.rule \in StatementRules -> Some([variant |-> p.rule, value |-> p.pos])
      [] OTHER -> None

(***************************************************************************)
(* impl Parse for Tree: parser::parse over the children, the node of each  *)
(* child that has one, in order.                                           *)
(***************************************************************************)
IsNode(r) == r.kind # "None"

parse(pairs) ==
    Collect(SelectSeq([i \in 1..Len(pairs) |-> ParseOne(pairs[i])], IsNode))

Tree_parse_from(p) == parse(p.inner)

(***************************************************************************)
(* utils::is_unique: no element of the sequence occurs twice.              *)
(***************************************************************************)
is_unique(s) ==
    \A i, j \in 1..Len(s) : i # j => s[i] # s[j]

(***************************************************************************)
(* impl Parse for Function                                                 *)
(***************************************************************************)
FunctionModOfLenient(token, start_pos) ==
    LET modifier == trim_end(token.str)
    IN  CASE modifier = <<"d", "e", "b", "u", "g">> -> Some("Debug")
          [] OTHER -> Some("Public")

FunctionModOf(token, start_pos) ==
    LET modifier == trim_end(token.str)
    IN  CASE modifier = <<"d", "e", "b", "u", "g">> -> Some("Debug")
          [] modifier = <<"b", "a", "r">> -> Some("Public")
          [] OTHER -> syntax_error("Invalid modifier", start_pos)

HasDuplicatesAdjacentOnly(args) ==
    \E i \in 1..(Len(args) - 1) : args[i].ident = args[i + 1].ident

\* line 62: has_duplicates
HasDuplicates(args) ==
    ~is_unique([i \in 1..Len(args) |-> args[i].ident])

Function_of(modifiers, declaration, args, args_pos, body) ==
    IF Aborted(modifiers) THEN modifiers
    ELSE IF Aborted(declaration) THEN declaration
    ELSE IF Aborted(args) THEN args
    ELSE IF HasDuplicates(args.value) THEN syntax_error("Duplicate arguments", args_pos)
    ELSE IF Aborted(body) THEN body
    ELSE Some([modifiers |-> modifiers.value,
               declaration |-> declaration.value,
               args |-> args.value,
               body |-> body.value])

Function_parse_from(p) ==
    Function_of(Collect([i \in 1..Len(p.inner[1].inner) |->
                            FunctionModOf(p.inner[1].inner[i], p.pos)]),
                unwrap(Declaration_parse_from(p.inner[2])),
                Collect([i \in 1..Len(p.inner[3].inner) |->
                            unwrap(Declaration_parse_from(p.inner[3].inner[i]))]),
                p.inner[3].pos,
                unwrap(Tree_parse_from(p.inner[4])))

(***************************************************************************)
(* impl Parse for Expr                                                     *)
(***************************************************************************)
Expr_match(value, start_pos) ==
    IF Aborted(value) THEN value
    ELSE IF value.value.variant = "Expr" THEN Some(value.value.value)
    ELSE syntax_error("Value is not an expression", start_pos)

Expr_parse_from(p) ==
    Expr_match(expect(ParseOne(p), "Invalid expression"), p.pos)

(***************************************************************************)
(* impl Parse for Variable                                                 *)
(***************************************************************************)
VariableModOf(token, start_pos) ==
    LET modifier == trim_end(token.str)
    IN  CASE modifier = <<"b", "a", "r">> -> Some("Public")
          [] OTHER -> syntax_error("Invalid modifier", start_pos)

Variable_of(modifiers, declaration, value) ==
    IF Aborted(modifiers) THEN modifiers
    ELSE IF Aborted(declaration) THEN declaration
    ELSE IF Aborted(value) THEN value
    ELSE Some([modifiers |-> modifiers.value,
               declaration |-> declaration.value,
               value |-> value.value])

\* the check of src/src/from_pair.rs (an earlier revision): the node is
\* matched in Variable::parse_from and reported at the declaration
Variable_parse_from_at_declaration(p) ==
    Variable_of(Collect([i \in 1..Len(p.inner[1].inner) |->
                            VariableModOf(p.inner[1].inner[i], p.pos)]),
                unwrap(Declaration_parse_from(p.inner[2])),
                Expr_match(unwrap(ParseOne(p.inner[3])), p.pos))

Variable_parse_from(p) ==
    Variable_of(Collect([i \in 1..Len(p.inner[1].inner) |->
                            VariableModOf(p.inner[1].inner[i], p.pos)]),
                unwrap(Declaration_parse_from(p.inner[2])),
                unwrap(Expr_parse_from(p.inner[3])))

(***************************************************************************)
(* impl Parse for Throw, Return, Assignment, IfBlock                       *)
(***************************************************************************)
Value_of(value) ==
    IF Aborted(value) THEN value ELSE Some([value |-> value.value])

Throw_parse_from(p) == Value_of(unwrap(Expr_parse_from(p.inner[1])))

Return_parse_from(p) == Value_of(unwrap(Expr_parse_from(p.inner[1])))

Assignment_of(ident, value) ==
    IF Aborted(value) THEN value
    ELSE Some([ident |-> ident.value, value |-> value.value])

Assignment_parse_from(p) ==
    Assignment_of(unwrap(Ident_parse_from(p.inner[1])),
                  unwrap(Expr_parse_from(p.inner[2])))

IfCase_of(expr, body) ==
    IF Aborted(expr) THEN expr
    ELSE IF Aborted(body) THEN body
    ELSE Some([tag |-> "Case", expr |-> <<expr.value>>, body |-> body.value])

Else_of(body) ==
    IF Aborted(body) THEN body
    ELSE Some([tag |-> "Else", expr |-> <<>>, body |-> body.value])

\* a closure that knows If and Else only
IfNodeOfIfOnly(x) ==
    CASE x.rule = "If" ->
            IfCase_of(unwrap(Expr_parse_from(x.inner[1])),
                      unwrap(Tree_parse_from(x.inner[2])))
      [] x.rule = "Else" -> Else_of(unwrap(Tree_parse_from(x.inner[1])))
      [] OTHER -> bug("INVALID_IFNODE")

\* the closure of lines 308-324 on one child
IfNodeOf(x) ==
    CASE x.rule \in {"If", "ElseIf"} ->
            IfCase_of(unwrap(Expr_parse_from(x.inner[1])),
                      unwrap(Tree_parse_from(x.inner[2])))
      [] x.rule = "Else" -> Else_of(unwrap(Tree_parse_from(x.inner[1])))
      [] OTHER -> bug("INVALID_IFNODE")

IfBlock_of(if_nodes) ==
    IF Aborted(if_nodes) THEN if_nodes ELSE Some([if_nodes |-> if_nodes.value])

IfBlock_parse_from(p) ==
    IfBlock_of(Collect([i \in 1..Len(p.inner) |-> IfNodeOf(p.inner[i])]))

(***************************************************************************)
(* impl Parse for TryCatch: the try block, then the catch, which starts    *)
(* with its block or with the identifier the error is bound to.            *)
(***************************************************************************)
Catch_of(ident, body) ==
    IF Aborted(body) THEN body
    ELSE Some([ident |-> AsOption(ident), body |-> body.value])

\* match first.as_rule(), on the children of the catch
CatchOf(catch) ==
    IF catch = <<>> THEN Panic("unwrap on None")
    ELSE CASE catch[1].rule = "Block" -> Catch_of(None, unwrap(Tree_parse_from(catch[1])))
           [] catch[1].rule = "Ident" ->
                IF Len(catch) < 2 THEN Panic("unwrap on None")
                ELSE Catch_of(Ident_parse_from(catch[1]),
                              unwrap(Tree_parse_from(catch[2])))
           [] OTHER -> bug("CATCH_NOT_BLOCK_OR_IDENT")

TryCatch_of(try, catch) ==
    IF Aborted(try) THEN try
    ELSE IF Aborted(catch) THEN catch
    ELSE Some([try |-> try.value, catch |-> catch.value])

TryCatch_parse_from(p) ==
    TryCatch_of(unwrap(Tree_parse_from(p.inner[1])), CatchOf(p.inner[2].inner))

(***************************************************************************)
(* Inputs.  A call hands one pair to a parse_from; each family of inputs   *)
(* is a predicate that draws the call and its pair.                        *)
(***************************************************************************)
Given(c, p) == call = c /\ pair = p

(***************************************************************************)
(* Inputs: the pairs the grammar hands to Term::parse_from.                *)
(***************************************************************************)
RECURSIVE SeqsUpTo(_, _)
SeqsUpTo(S, n) ==
    IF n = 0 THEN {<<>>}
    ELSE LET shorter == SeqsUpTo(S, n - 1)
         IN  shorter \cup {Append(s, x) : s \in {t \in shorter : Len(t) = n - 1}, x \in S}

Magnitudes == SeqsUpTo(DigitChars, MaxDigits) \ {<<>>}

\* rule tags found in the sign position: Add, Subtract, and one tag the
\* builder has no case for
SignRules == {"Add", "Subtract", "Multiply"}

NumberPair(pos, sign, mag) ==
    IF sign = "absent"
    THEN Pair("Number", pos, mag, <<Pair("UNumber", pos, mag, <<>>)>>)
    ELSE Pair("Number", pos,
              <<CASE sign = "Add" -> "+" [] sign = "Subtract" -> "-" [] OTHER -> "*">> \o mag,
              <<Pair(sign, pos, <<>>, <<>>), Pair("UNumber", pos + 1, mag, <<>>)>>)

NumberPairs ==
    \E s \in SignRules \cup {"absent"}, m \in Magnitudes :
        Given("Term", NumberPair(0, s, m))

IdentNames == {<<"a">>, <<"b">>, <<"c">>}

IdentPair(pos, name) == Pair("Ident", pos, name, <<>>)

StringPairs ==
    {Pair("String", 0, s, <<>>) :
        s \in {<<"\"", "h", "i", "\"">>, <<"'", "h", "'">>, <<"\"", "\"">>}}

OtherTermPairs ==
    {Pair("UNumber", 0, <<"7">>, <<>>), Pair("Expr", 0, <<>>, <<>>),
     Pair("Break", 0, <<>>, <<>>)}

TermPairs ==
    \/ NumberPairs
    \/ \E p \in {IdentPair(0, n) : n \in IdentNames} \cup StringPairs \cup OtherTermPairs :
            Given("Term", p)

(***************************************************************************)
(* Inputs: function declarations.  The text of a declaration is laid out   *)
(* left to right: modifiers, keyword, name, argument list, block.          *)
(***************************************************************************)
ModTokens ==
    {<<"b", "a", "r">>, <<"b", "a", "r", " ">>,
     <<"d", "e", "b", "u", "g">>, <<"d", "e", "b", "u", "g", " ">>,
     <<"f", "o", "o">>, <<" ", "b", "a", "r">>}

RECURSIVE TextLen(_)
TextLen(tokens) ==
    IF tokens = <<>> THEN 0 ELSE Len(tokens[1]) + TextLen(Tail(tokens))

ModifiersPair(pos, tokens) ==
    Pair("Modifiers", pos, <<>>,
         [i \in 1..Len(tokens) |->
            Pair("Modifier", pos + TextLen(SubSeq(tokens, 1, i - 1)), tokens[i], <<>>)])

DeclarationPair(pos, name) ==
    Pair("Declaration", pos, name, <<IdentPair(pos, name)>>)

TypedDeclarationPair(pos, name, type, is_array) ==
    Pair("Declaration", pos, name,
         <<IdentPair(pos, name),
           Pair("Type", pos + Len(name) + 1, type,
                IF is_array
                THEN <<IdentPair(pos + Len(name) + 1, type),
                       Pair("Array", pos + Len(name) + 1 + Len(type), <<"[", "]">>, <<>>)>>
                ELSE <<IdentPair(pos + Len(name) + 1, type)>>)>>)

ArgsPair(pos, names) ==
    Pair("Args", pos, <<>>,
         [i \in 1..Len(names) |-> DeclarationPair(pos + 1 + 2 * (i - 1), names[i])])

BlockPair(pos) == Pair("Block", pos, <<>>, <<>>)

FunctionPair(pos, tokens, names) ==
    LET decl_pos == pos + TextLen(tokens) + 1
        args_pos == decl_pos + 2
    IN  Pair("Function", pos, <<>>,
             <<ModifiersPair(pos, tokens),
               DeclarationPair(decl_pos, <<"f">>),
               ArgsPair(args_pos, names),
               BlockPair(args_pos + 2 + 2 * Len(names))>>)

FunctionPairs ==
    \/ \E tokens \in SeqsUpTo(ModTokens, MaxMods), names \in SeqsUpTo(IdentNames, MaxArgs) :
            Given("Function", FunctionPair(0, tokens, names))
    \/ \E arr \in BOOLEAN :
            Given("Function",
                  Pair("Function", 0, <<>>,
                       <<ModifiersPair(0, <<>>),
                         TypedDeclarationPair(1, <<"f">>, <<"N">>, arr),
                         ArgsPair(5, <<>>), BlockPair(7)>>))

(***************************************************************************)
(* Inputs: operator chains o1 p1 o2 ... p(n-1) on, laid out left to right. *)
(***************************************************************************)
ChainOperands ==
    {IdentPair(0, n) : n \in IdentNames}
        \cup {NumberPair(0, "Subtract", <<"5">>), Pair("Expr", 0, <<"(", ")">>, <<>>)}

\* the tags of the operator position: those of the grammar and one the
\* builder has no case for
MathTags == {"Add", "Subtract", "Multiply", "Divide", "XOR", "Equality"}
CondTags == {"Equality", "Inequality", "Add"}

At(p, pos) == [p EXCEPT !.pos = pos]

OperatorPair(rule, pos, tag) ==
    Pair(rule, pos, <<>>, <<Pair(tag, pos, <<>>, <<>>)>>)

\* children 2k-1 are operands, children 2k operators
ChainPair(rule, oprule, pos, operands, tags) ==
    Pair(rule, pos, <<>>,
         [k \in 1..(2 * Len(operands) - 1) |->
            IF k % 2 = 1 THEN At(operands[(k + 1) \div 2], pos + k - 1)
            ELSE OperatorPair(oprule, pos + k - 1, tags[k \div 2])])

RECURSIVE SeqsOfLen(_, _)
SeqsOfLen(S, n) ==
    IF n = 0 THEN {<<>>}
    ELSE {Append(s, x) : s \in SeqsOfLen(S, n - 1), x \in S}

ChainPairs(rule, oprule, tags, pos) ==
    \E n \in 1..MaxTerms :
        \E os \in SeqsOfLen(ChainOperands, n), ts \in SeqsOfLen(tags, n - 1) :
            Given(rule, ChainPair(rule, oprule, pos, os, ts))

BinaryExprPairs == ChainPairs("BinaryExpr", "MathOperator", MathTags, 0)
ConditionalExprPairs == ChainPairs("ConditionalExpr", "ConditionalOperator", CondTags, 0)

(***************************************************************************)
(* Inputs: statements with a sub-tree where an expression is required.     *)
(***************************************************************************)
RECURSIVE Shift(_, _)
Shift(p, d) ==
    [p EXCEPT !.pos = @ + d, !.inner = [i \in 1..Len(p.inner) |-> Shift(p.inner[i], d)]]

VariablePair(pos, tokens, name, value) ==
    LET decl_pos == pos + TextLen(tokens) + 1
    IN  Pair("Variable", pos, <<>>,
             <<ModifiersPair(pos, tokens),
               DeclarationPair(decl_pos, name),
               Shift(value, decl_pos + Len(name) + 1)>>)

CallPair(pos, args) ==
    Pair("Call", pos, <<>>,
         <<IdentPair(pos, <<"f">>),
           Pair("CallArgs", pos + 2, <<>>,
                [i \in 1..Len(args) |->
                    Pair("CallArg", pos + 2 * i, <<>>, <<At(args[i], pos + 2 * i)>>)])>>)

\* terms in the places that unwrap one: an identifier, a string, a
\* negative number, a parenthesized expression, a bare unsigned number
UnwrappedTerms ==
    {IdentPair(0, <<"a">>), Pair("String", 0, <<"'", "h", "'">>, <<>>),
     NumberPair(0, "Subtract", <<"5">>), Pair("Expr", 0, <<"(", ")">>, <<>>),
     Pair("UNumber", 0, <<"7">>, <<>>)}

CallPairs ==
    \E args \in SeqsUpTo(UnwrappedTerms, MaxArgs) : Given("Call", CallPair(0, args))

ImportPairs ==
    \E path \in UnwrappedTerms : Given("Import", Pair("Import", 0, <<>>, <<At(path, 1)>>))

IndexExprPairs ==
    \E term \in UnwrappedTerms, index \in UnwrappedTerms :
        Given("IndexExpr", Pair("IndexExpr", 0, <<>>, <<term, At(index, 2)>>))

\* sub-trees that are expressions
ExprSubtrees ==
    {ChainPair("BinaryExpr", "MathOperator", 0, <<IdentPair(0, <<"a">>)>>, <<>>),
     ChainPair("BinaryExpr", "MathOperator", 0,
               <<IdentPair(0, <<"a">>), NumberPair(0, "Subtract", <<"5">>)>>, <<"Add">>),
     ChainPair("ConditionalExpr", "ConditionalOperator", 0,
               <<IdentPair(0, <<"a">>), IdentPair(0, <<"b">>)>>, <<"Equality">>)}

\* sub-trees that are statements, or that have no node
StatementSubtrees ==
    {Pair("Break", 0, <<>>, <<>>),
     Pair("Loop", 0, <<>>, <<BlockPair(1)>>),
     CallPair(0, <<IdentPair(0, <<"a">>)>>),
     VariablePair(0, <<>>, <<"b">>,
                  ChainPair("BinaryExpr", "MathOperator", 0, <<IdentPair(0, <<"a">>)>>, <<>>)),
     Pair("Return", 0, <<>>,
          <<Shift(ChainPair("BinaryExpr", "MathOperator", 0, <<IdentPair(0, <<"a">>)>>, <<>>), 1)>>),
     Pair("EOI", 0, <<>>, <<>>)}

Subtrees == ExprSubtrees \cup StatementSubtrees

VariablePairs ==
    \E tokens \in SeqsUpTo(ModTokens, MaxMods), v \in Subtrees :
        Given("Variable", VariablePair(0, tokens, <<"x">>, v))

ThrowPairs ==
    \E v \in Subtrees : Given("Throw", Pair("Throw", 0, <<>>, <<Shift(v, 1)>>))

ReturnPairs ==
    \E v \in Subtrees : Given("Return", Pair("Return", 0, <<>>, <<Shift(v, 1)>>))

AssignmentPairs ==
    \E v \in Subtrees :
        Given("Assignment",
              Pair("Assignment", 0, <<>>, <<IdentPair(0, <<"x">>), Shift(v, 2)>>))

\* an if chain: If, then ElseIf, then an optional Else, laid out left to right
IfChildPair(rule, pos, condition) ==
    Pair(rule, pos, <<>>, <<Shift(condition, pos + 1)>>  \o <<BlockPair(pos + 8)>>)

ElsePair(pos) == Pair("Else", pos, <<>>, <<BlockPair(pos + 1)>>)

IfPair(conds, has_else) ==
    Pair("If", 0, <<>>,
         [i \in 1..Len(conds) |->
            IfChildPair(IF i = 1 THEN "If" ELSE "ElseIf", 10 * (i - 1), conds[i])]
         \o (IF has_else THEN <<ElsePair(10 * Len(conds))>> ELSE <<>>))

IfPairs ==
    \E conds \in SeqsUpTo(Subtrees, MaxCases) \ {<<>>}, e \in BOOLEAN :
        Given("IfBlock", IfPair(conds, e))

\* the children of an If pair by their tags alone, in any order: the builder
\* is handed them by the grammar and takes them as they come
IfTags == {"If", "ElseIf", "Else", "Loop"}

IfShapeChild(rule, pos) ==
    CASE rule \in {"If", "ElseIf"} -> IfChildPair(rule, pos,
                ChainPair("BinaryExpr", "MathOperator", 0, <<IdentPair(0, <<"a">>)>>, <<>>))
      [] rule = "Else" -> ElsePair(pos)
      [] OTHER -> Pair(rule, pos, <<>>, <<>>)

IfShapePairs ==
    \E tags \in SeqsUpTo(IfTags, MaxCases + 1) \ {<<>>} :
        Given("IfBlock",
              Pair("If", 0, <<>>,
                   [i \in 1..Len(tags) |-> IfShapeChild(tags[i], 10 * (i - 1))]))

\* try { } catch { }, catch e { }, and a catch that starts with a child of
\* another rule
CatchChildren ==
    {<<BlockPair(6)>>, <<IdentPair(6, <<"e">>), BlockPair(8)>>,
     <<Pair("String", 6, <<"'", "h", "'">>, <<>>), BlockPair(10)>>,
     <<Pair("Break", 6, <<>>, <<>>)>>}

TryCatchPairs ==
    \E catch \in CatchChildren :
        Given("TryCatch",
              Pair("TryCatch", 0, <<>>, <<BlockPair(0), Pair("Catch", 5, <<>>, catch)>>))

(***************************************************************************)
(* The builder as a state machine: the parser dispatches one pair to the   *)
(* parse_from of its rule, which returns a value or ends the process.      *)
(***************************************************************************)
Pending == Result("Pending", "", 0, <<>>)

Inputs ==
    \/ TermPairs
    \/ FunctionPairs
    \/ BinaryExprPairs
    \/ ConditionalExprPairs
    \/ CallPairs
    \/ ImportPairs
    \/ IndexExprPairs
    \/ VariablePairs
    \/ ThrowPairs
    \/ ReturnPairs
    \/ AssignmentPairs
    \/ IfPairs
    \/ IfShapePairs
    \/ TryCatchPairs

Init ==
    /\ Inputs
    /\ outcome = Pending
    /\ tree = <<>> /\ todo = <<>> /\ compile_meta = <<>>
    /\ status = "Idle" /\ build = <<>> /\ pc = <<>> /\ cond = FALSE /\ taken = <<>>

TermParseFrom ==
    /\ call = "Term" /\ outcome = Pending
    /\ outcome' = Term_parse_from(pair)
    /\ UNCHANGED <<call, pair>>
    /\ UNCHANGED cvars

FunctionParseFrom ==
    /\ call = "Function" /\ outcome = Pending
    /\ outcome' = Function_parse_from(pair)
    /\ UNCHANGED <<call, pair>>
    /\ UNCHANGED cvars

BinaryExprParseFrom ==
    /\ call = "BinaryExpr" /\ outcome = Pending
    /\ outcome' = BinaryExpr_parse_from(pair)
    /\ UNCHANGED <<call, pair>>
    /\ UNCHANGED cvars

ConditionalExprParseFrom ==
    /\ call = "ConditionalExpr" /\ outcome = Pending
    /\ outcome' = ConditionalExpr_parse_from(pair)
    /\ UNCHANGED <<call, pair>>
    /\ UNCHANGED cvars

CallParseFrom ==
    /\ call = "Call" /\ outcome = Pending
    /\ outcome' = Call_parse_from(pair)
    /\ UNCHANGED <<call, pair>>
    /\ UNCHANGED cvars

ImportParseFrom ==
    /\ call = "Import" /\ outcome = Pending
    /\ outcome' = Import_parse_from(pair)
    /\ UNCHANGED <<call, pair>>
    /\ UNCHANGED cvars

IndexExprParseFrom ==
    /\ call = "IndexExpr" /\ outcome = Pending
    /\ outcome' = IndexExpr_parse_from(pair)
    /\ UNCHANGED <<call, pair>>
    /\ UNCHANGED cvars

VariableParseFrom ==
    /\ call = "Variable" /\ outcome = Pending
    /\ outcome' = Variable_parse_from(pair)
    /\ UNCHANGED <<call, pair>>
    /\ UNCHANGED cvars

ThrowParseFrom ==
    /\ call = "Throw" /\ outcome = Pending
    /\ outcome' = Throw_parse_from(pair)
    /\ UNCHANGED <<call, pair>>
    /\ UNCHANGED cvars

ReturnParseFrom ==
    /\ call = "Return" /\ outcome = Pending
    /\ outcome' = Return_parse_from(pair)
    /\ UNCHANGED <<call, pair>>
    /\ UNCHANGED cvars

AssignmentParseFrom ==
    /\ call = "Assignment" /\ outcome = Pending
    /\ outcome' = Assignment_parse_from(pair)
    /\ UNCHANGED <<call, pair>>
    /\ UNCHANGED cvars

IfBlockParseFrom ==
    /\ call = "IfBlock" /\ outcome = Pending
    /\ outcome' = IfBlock_parse_from(pair)
    /\ UNCHANGED <<call, pair>>
    /\ UNCHANGED cvars

TryCatchParseFrom ==
    /\ call = "TryCatch" /\ outcome = Pending
    /\ outcome' = TryCatch_parse_from(pair)
    /\ UNCHANGED <<call, pair>>
    /\ UNCHANGED cvars

Next ==
    \/ TermParseFrom
    \/ FunctionParseFrom
    \/ BinaryExprParseFrom
    \/ ConditionalExprParseFrom
    \/ CallParseFrom
    \/ ImportParseFrom
    \/ IndexExprParseFrom
    \/ VariableParseFrom
    \/ ThrowParseFrom
    \/ ReturnParseFrom
    \/ AssignmentParseFrom
    \/ IfBlockParseFrom
    \/ TryCatchParseFrom

Spec == Init /\ [][Next]_vars

(***************************************************************************)
(* The CFG compiler.  The AST it consumes: a Tree is a sequence of nodes   *)
(* [kind, ident, refs, body, if_nodes]; refs are the identifiers the       *)
(* node's expression or arguments read, in order; an if node is            *)
(* [tag, refs, body] with tag "Case" (refs: its condition) or "Else".      *)
(*                                                                         *)
(* compile_meta is the state one function compilation threads through the  *)
(* walk: the cursor basic_block and function_scope of CompileMetadata, the *)
(* function under construction (blocks of instructions [op, x, y], the     *)
(* slots allocated), the stack of loop exits, the error that ended the     *)
(* build, and a record of what was lowered, in lowering order: events      *)
(* (declarations and references with their slot), loops, breaks, ifs.      *)
(***************************************************************************)
AstNode(kind, ident, refs, body, if_nodes) ==
    [kind |-> kind, ident |-> ident, refs |-> refs, body |-> body, if_nodes |-> if_nodes]

IfNode(tag, refs, body) == [tag |-> tag, refs |-> refs, body |-> body]

Instr(op, x, y) == [op |-> op, x |-> x, y |-> y]

Terminators == {"br", "condbr", "ret"}

NoError == [kind |-> "None", msg |-> ""]

Failed(m) == m.error.kind # "None"

Fail(m, kind, msg) == [m EXCEPT !.error = [kind |-> kind, msg |-> msg]]

\* Builder::build_*: append at the cursor
Emit(m, instr) == [m EXCEPT !.blocks[m.basic_block] = Append(@, instr)]

\* Context::append_basic_block, n times: the new blocks are
\* Len(m.blocks) + 1 .. Len(m.blocks) + n
NewBlocks(m, n) == [m EXCEPT !.blocks = @ \o [i \in 1..n |-> <<>>]]

\* Builder::position_at_end, with the cursor of CompileMetadata
position_at_end(m, block) == [m EXCEPT !.basic_block = block]

Note(m, ev, name, slot) ==
    [m EXCEPT !.events = Append(@, [ev |-> ev, name |-> name, slot |-> slot])]

(***************************************************************************)
(* Scope: a HashMap from identifier to storage slot.                       *)
(***************************************************************************)
EmptyScope == [variables |-> <<>>]

Bound(scope, name) == name \in DOMAIN scope.variables

\* the entry().or_insert() of a map: an existing binding is kept
Scope_insert_if_absent(scope, name, slot) ==
    [variables |->
        [k \in DOMAIN scope.variables \cup {name} |->
            IF k \in DOMAIN scope.variables THEN scope.variables[k] ELSE slot]]

\* HashMap::insert: the binding of name is replaced
Scope_insert(scope, name, slot) ==
    [variables |->
        [k \in DOMAIN scope.variables \cup {name} |->
            IF k = name THEN slot ELSE scope.variables[k]]]

(***************************************************************************)
(* Lowering of the implemented kinds (compiler/compile_node.rs).           *)
(***************************************************************************)
\* a read of an identifier: a load from the slot Scope binds it to
Reference(name, m) ==
    IF Bound(m.function_scope, name)
    THEN Note(Emit(m, Instr("load", m.function_scope.variables[name], 0)),
              "ref", name, m.function_scope.variables[name])
    ELSE Fail(m, "ControlFlowIntegrity", "unbound identifier")

\* the evaluation of an expression at the cursor: its reads, in order
RECURSIVE Evaluate(_, _)
Evaluate(refs, m) ==
    IF refs = <<>> \/ Failed(m) THEN m
    ELSE Evaluate(Tail(refs), Reference(refs[1], m))

\* Variable: allocate a slot, evaluate the value, store, register
Variable_alloca(m) ==
    [Emit(m, Instr("alloca", m.slots + 1, 0)) EXCEPT !.slots = @ + 1]

Variable_store(m) ==
    IF Failed(m) THEN m ELSE Emit(m, Instr("store", m.slots, 0))

Variable_register(node, m) ==
    IF Failed(m) THEN m
    ELSE Note([m EXCEPT !.function_scope = Scope_insert(@, node.ident, m.slots)],
              "decl", node.ident, m.slots)

Variable_compile(node, m) ==
    Variable_register(node, Variable_store(Evaluate(node.refs, Variable_alloca(m))))

\* Call: evaluate the arguments, emit the call
Call_emit(m) ==
    IF Failed(m) THEN m ELSE Emit(m, Instr("call", 0, 0))

Call_compile(node, m) == Call_emit(Evaluate(node.refs, m))

\* Break: a branch to the exit of the nearest enclosing loop, the top of
\* the stack of loop exits; the cursor moves on to a block of its own
Break_bottom_of_stack(node, m) ==
    IF m.loop_exits = <<>> THEN Fail(m, "ControlFlowIntegrity", "break outside loop")
    ELSE position_at_end(
            NewBlocks([Emit(m, Instr("br", m.loop_exits[1], 0))
                            EXCEPT !.breaks = Append(@, m.basic_block)], 1),
            Len(m.blocks) + 1)

Break_compile(node, m) ==
    IF m.loop_exits = <<>> THEN Fail(m, "ControlFlowIntegrity", "break outside loop")
    ELSE position_at_end(
            NewBlocks([Emit(m, Instr("br", m.loop_exits[Len(m.loop_exits)], 0))
                            EXCEPT !.breaks = Append(@, m.basic_block)], 1),
            Len(m.blocks) + 1)

RECURSIVE compile(_, _)
RECURSIVE compile_one(_, _)

\* Loop: a header block the cursor branches to and the body is lowered
\* into, a branch back to the header at the body's end; the cursor after
\* the loop is its exit block, pushed on entry and popped here
Loop_begin(m) ==
    [position_at_end(NewBlocks(Emit(m, Instr("br", Len(m.blocks) + 1, 0)), 2),
                     Len(m.blocks) + 1)
        EXCEPT !.loop_exits = Append(@, Len(m.blocks) + 2),
               !.loops = Append(@, [header |-> Len(m.blocks) + 1, after |-> 0])]

\* the loop being closed is the last one entered that is still open
ClosingLoop(m) ==
    CHOOSE i \in 1..Len(m.loops) :
        /\ m.loops[i].after = 0
        /\ \A j \in (i + 1)..Len(m.loops) : m.loops[j].after # 0

Loop_end(header, m) ==
    IF Failed(m) THEN m
    ELSE [position_at_end(Emit(m, Instr("br", header, 0)), m.loop_exits[Len(m.loop_exits)])
            EXCEPT !.loop_exits = SubSeq(@, 1, Len(@) - 1),
                   !.loops[ClosingLoop(m)].after = m.loop_exits[Len(m.loop_exits)]]

Loop_compile(node, m) ==
    Loop_end(Len(m.blocks) + 1, compile(node.body, Loop_begin(m)))

\* If: the blocks of an if chain entered with cursor at, when blocks
\* 1..base exist: a body block per if node, a condition block per case
\* after the first (the first condition is evaluated at the entry cursor),
\* and one merge block
Cases(if_nodes) == SelectSeq(if_nodes, LAMBDA x : x.tag = "Case")

If_site(if_nodes, at, base) ==
    [conds |-> [k \in 1..Len(Cases(if_nodes)) |->
                    IF k = 1 THEN at ELSE base + Len(if_nodes) + k - 1],
     bodies |-> [k \in 1..Len(if_nodes) |-> base + k],
     tags |-> [k \in 1..Len(if_nodes) |-> if_nodes[k].tag],
     merge |-> base + Len(if_nodes) + Len(Cases(if_nodes))]

If_begin(site, m) ==
    [NewBlocks(m, site.merge - Len(m.blocks)) EXCEPT !.ifs = Append(@, site)]

\* where the condition of if node k branches when it is false: the next
\* case's condition, the Else body, or the merge block
FalseTargetMerge(site, k) == site.merge

FalseTarget(site, k) ==
    IF k = Len(site.bodies) THEN site.merge
    ELSE IF site.tags[k + 1] = "Case" THEN site.conds[k + 1]
    ELSE site.bodies[k + 1]

If_branch(site, k, m) ==
    IF Failed(m) THEN m
    ELSE Emit(m, Instr("condbr", site.bodies[k], FalseTarget(site, k)))

If_cond(x, site, k, m) ==
    IF x.tag = "Case"
    THEN If_branch(site, k, Evaluate(x.refs, position_at_end(m, site.conds[k])))
    ELSE m

If_body_end(site, m) ==
    IF Failed(m) THEN m ELSE Emit(m, Instr("br", site.merge, 0))

If_body(x, site, k, m) ==
    IF Failed(m) THEN m
    ELSE If_body_end(site, compile(x.body, position_at_end(m, site.bodies[k])))

RECURSIVE If_nodes(_, _, _, _)
If_nodes(if_nodes, site, k, m) ==
    IF Failed(m) THEN m
    ELSE IF k > Len(if_nodes) THEN position_at_end(m, site.merge)
    ELSE If_nodes(if_nodes, site, k + 1,
                  If_body(if_nodes[k], site, k, If_cond(if_nodes[k], site, k, m)))

If_compile(node, m) ==
    If_nodes(node.if_nodes, If_site(node.if_nodes, m.basic_block, Len(m.blocks)), 1,
             If_begin(If_site(node.if_nodes, m.basic_block, Len(m.blocks)), m))

(***************************************************************************)
(* compiler::compile_one and compiler::compile                             *)
(***************************************************************************)
TodoKinds ==
    {"Function", "Throw", "Import", "Module", "TryCatch", "Assignment", "Class", "Return"}

compile_one_break_ignored(node, m) ==
    CASE node.kind = "Loop" -> Loop_compile(node, m)
      [] node.kind = "Break" -> m
      [] node.kind = "Call" -> Call_compile(node, m)
      [] node.kind = "Variable" -> Variable_compile(node, m)
      [] node.kind = "If" -> If_compile(node, m)
      [] node.kind = "Expr" -> Fail(m, "Bug", "EXPR_IS_STATEMENT_COMPILER")
      [] OTHER -> Fail(m, "Panic", "not yet implemented")

\* a compile_one that passes over the kinds with no lowering rule
compile_one_todo_ignored(node, m) ==
    CASE node.kind = "Loop" -> Loop_compile(node, m)
      [] node.kind = "Break" -> Break_compile(node, m)
      [] node.kind \in TodoKinds -> m
      [] node.kind = "Call" -> Call_compile(node, m)
      [] node.kind = "Variable" -> Variable_compile(node, m)
      [] node.kind = "If" -> If_compile(node, m)
      [] node.kind = "Expr" -> Fail(m, "Bug", "EXPR_IS_STATEMENT_COMPILER")

compile_one(node, m) ==
    CASE node.kind = "Loop" -> Loop_compile(node, m)
      [] node.kind = "Break" -> Break_compile(node, m)
      [] node.kind \in TodoKinds -> Fail(m, "Panic", "not yet implemented")
      [] node.kind = "Call" -> Call_compile(node, m)
      [] node.kind = "Variable" -> Variable_compile(node, m)
      [] node.kind = "If" -> If_compile(node, m)
      [] node.kind = "Expr" -> Fail(m, "Bug", "EXPR_IS_STATEMENT_COMPILER")

\* for node in tree: the process ends at the first node that fails
compile(nodes, m) ==
    IF nodes = <<>> \/ Failed(m) THEN m
    ELSE compile(Tail(nodes), compile_one(nodes[1], m))

(***************************************************************************)
(* Inputs: the trees cook compiles.                                        *)
(***************************************************************************)
LoopNode(body) == AstNode("Loop", "", <<>>, body, <<>>)
BreakNode == AstNode("Break", "", <<>>, <<>>, <<>>)
CallNode(ident, refs) == AstNode("Call", ident, refs, <<>>, <<>>)
VariableNode(ident, refs) == AstNode("Variable", ident, refs, <<>>, <<>>)
IfBlockNode(if_nodes) == AstNode("If", "", <<>>, <<>>, if_nodes)
OtherNode(kind) == AstNode(kind, "", <<>>, <<>>, <<>>)

Case(body) == IfNode("Case", <<>>, body)
Else(body) == IfNode("Else", <<>>, body)

\* the innermost statements of a nest
Cores == {<<>>, <<BreakNode>>, <<BreakNode, CallNode("g", <<>>)>>}

\* a tree put one level deeper: in a loop, in a loop followed by a Break,
\* in the first or a later case of an if chain, in its Else
Deeper(t) ==
    {<<LoopNode(t)>>,
     <<LoopNode(t), BreakNode>>,
     <<IfBlockNode(<<Case(t)>>)>>,
     <<IfBlockNode(<<Case(t), Else(<<>>)>>)>>,
     <<IfBlockNode(<<Case(<<>>), Case(t), Else(<<>>)>>)>>,
     <<IfBlockNode(<<Case(<<>>), Else(t)>>)>>}

RECURSIVE Nests(_)
Nests(depth) ==
    IF depth = 0 THEN Cores
    ELSE Nests(depth - 1) \cup UNION {Deeper(t) : t \in Nests(depth - 1)}

\* a statement with no lowering rule, or an expression, ahead of a nest
Headed ==
    {<<OtherNode(kind)>> \o t : kind \in {"Return", "Throw", "Expr"}, t \in Nests(1)}

\* if chains of every length, each body empty or a Break, alone or in a loop
Bodies == {<<>>, <<BreakNode>>}

IfChains ==
    UNION {{IfBlockNode([k \in 1..Len(bodies) |-> Case(bodies[k])] \o else) :
                bodies \in SeqsOfLen(Bodies, n),
                else \in {<<>>} \cup {<<Else(b)>> : b \in Bodies}} :
            n \in 1..MaxChain}

ChainTrees == {<<c>> : c \in IfChains} \cup {<<LoopNode(<<c>>)>> : c \in IfChains}

\* straight-line declarations and uses of x and y, some in a nested body
ScopeStatements ==
    {VariableNode("x", <<>>), VariableNode("x", <<"x">>), VariableNode("y", <<"x">>),
     CallNode("f", <<"x">>), CallNode("f", <<"x", "y">>),
     IfBlockNode(<<IfNode("Case", <<"x">>, <<VariableNode("x", <<>>)>>)>>),
     LoopNode(<<VariableNode("x", <<"x">>), BreakNode>>)}

ScopeTrees == SeqsUpTo(ScopeStatements, MaxStmts)

\* a statement of each kind compile_one does not lower, after a declaration
\* and ahead of another, at top level, in a loop and in a case of an if chain
Stopped ==
    UNION {{<<VariableNode("x", <<>>), OtherNode(kind), VariableNode("y", <<"x">>)>>,
            <<LoopNode(<<VariableNode("x", <<>>), OtherNode(kind), BreakNode>>),
              VariableNode("y", <<>>)>>,
            <<IfBlockNode(<<Case(<<OtherNode(kind), VariableNode("x", <<>>)>>),
                            Else(<<VariableNode("y", <<>>)>>)>>),
              VariableNode("y", <<>>)>>} :
           kind \in TodoKinds \cup {"Expr"}}

Trees == Nests(MaxNest) \cup Headed \cup ChainTrees \cup ScopeTrees \cup Stopped

(***************************************************************************)
(* cook: the tree is compiled into the entry block of main with an empty   *)
(* scope, statement by statement; a return is added; the program runs.     *)
(***************************************************************************)
EntryMeta ==
    [basic_block |-> 1,
     function_scope |-> EmptyScope,
     blocks |-> <<(<<>>)>>,
     slots |-> 0,
     loop_exits |-> <<>>,
     error |-> NoError,
     events |-> <<>>,
     loops |-> <<>>,
     breaks |-> <<>>,
     ifs |-> <<>>]

Entry == [block |-> 1, at |-> 1]

\* nothing reported, no file written, nothing linked
NothingBuilt ==
    [log |-> <<>>, verify |-> <<>>, error |-> NoError, written |-> <<>>, linked |-> FALSE]

CompileInit ==
    /\ call = "cook" /\ pair = Pair("Program", 0, <<>>, <<>>) /\ outcome = Pending
    /\ tree \in Trees
    /\ todo = tree
    /\ compile_meta = EntryMeta
    /\ status = "Compiling"
    /\ build = NothingBuilt
    /\ pc = Entry
    /\ cond = FALSE
    /\ taken = <<>>

\* one turn of the loop of compile over the tree cook hands it
CompileStatement ==
    /\ status = "Compiling" /\ todo # <<>>
    /\ compile_meta' = compile_one(Head(todo), compile_meta)
    /\ todo' = Tail(todo)
    /\ status' = IF Failed(compile_meta') THEN "Aborted" ELSE "Compiling"
    /\ UNCHANGED <<call, pair, outcome, tree, build, pc, cond, taken>>

\* cook's build_return, at the cursor compile left
BuildReturn ==
    /\ status = "Compiling" /\ todo = <<>>
    /\ compile_meta' = Emit(compile_meta, Instr("ret", 0, 0))
    /\ status' = "Built"
    /\ UNCHANGED <<call, pair, outcome, tree, build, todo, pc, cond, taken>>

(***************************************************************************)
(* cook after build_return: the module is printed when show_ir is set and  *)
(* verified; a failed verification is reported line by line, the last line *)
(* by error!, which ends the process; otherwise the object or assembly     *)
(* file is written and linked.                                             *)
(***************************************************************************)
\* error!: the message is logged and the process exits
error(b, msg) ==
    [b EXCEPT !.log = Append(@, msg), !.error = [kind |-> "Error", msg |-> msg]]

\* log::error!, println!
Logged(b, lines) == [b EXCEPT !.log = @ \o lines]

\* what Module::verify answers: Ok, or Err with the lines of a message
VerifyResults == {<<"Ok">>, <<"Err", <<>>>>, <<"Err", <<"l1">>>>, <<"Err", <<"l1", "l2">>>>}

\* the last line logged like the others: the run goes on
VerificationFailedLogged(b, lines) ==
    Logged(b, <<"Module verification failed">> \o lines)

\* lines 254-261: the header, every line but the last, the last by error!;
\* of no lines, lines.len() - 1 ends the process in a panic
VerificationFailed(b, lines) ==
    IF lines = <<>>
    THEN [Logged(b, <<"Module verification failed">>)
            EXCEPT !.error = [kind |-> "Panic", msg |-> "attempt to subtract with overflow"]]
    ELSE error(Logged(b, <<"Module verification failed">> \o SubSeq(lines, 1, Len(lines) - 1)),
               lines[Len(lines)])

Shown(b, show_ir) == IF show_ir THEN Logged(b, <<"ir">>) ELSE b

Verified(b, result) ==
    IF result[1] = "Ok" THEN [b EXCEPT !.verify = result]
    ELSE VerificationFailed([b EXCEPT !.verify = result], result[2])

Verify ==
    /\ status = "Built"
    /\ \E show_ir \in BOOLEAN, result \in VerifyResults :
        build' = Verified(Shown(build, show_ir), result)
    /\ status' = IF Failed(build') THEN "Aborted" ELSE "Verified"
    /\ UNCHANGED <<call, pair, outcome, tree, todo, compile_meta, pc, cond, taken>>

\* lines 264-297: write_to_file(..).unwrap(), the file type by assembly
WriteToFile ==
    /\ status = "Verified"
    /\ \E assembly \in BOOLEAN, written \in BOOLEAN :
        /\ build' = IF written
                    THEN [build EXCEPT !.written =
                            <<IF assembly THEN "Assembly" ELSE "Object">>]
                    ELSE [build EXCEPT !.error =
                            [kind |-> "Panic", msg |-> "called Result::unwrap() on an Err value"]]
        /\ status' = IF written THEN "Written" ELSE "Aborted"
    /\ UNCHANGED <<call, pair, outcome, tree, todo, compile_meta, pc, cond, taken>>

\* lines 299-309
Link ==
    /\ status = "Written"
    /\ build' = [Logged(build, <<"Linking">>) EXCEPT !.linked = TRUE]
    /\ status' = "Linked"
    /\ UNCHANGED <<call, pair, outcome, tree, todo, compile_meta, pc, cond, taken>>

(***************************************************************************)
(* The program that was built, run: pc is the instruction about to be      *)
(* executed, cond the value of the condition evaluated last.  taken[s] is  *)
(* the if node whose body the run is in for if chain s, 0 from the time it *)
(* reaches the chain's first condition or its merge block.                 *)
(***************************************************************************)
Run ==
    /\ status = "Linked"
    /\ status' = "Running"
    /\ pc' = Entry
    /\ taken' = [s \in 1..Len(compile_meta.ifs) |-> 0]
    /\ UNCHANGED <<call, pair, outcome, tree, build, todo, compile_meta, cond>>

AtInstr ==
    /\ status = "Running"
    /\ pc.at <= Len(compile_meta.blocks[pc.block])

Current == compile_meta.blocks[pc.block][pc.at]

BodyAt(site, block) ==
    IF \E k \in 1..Len(site.bodies) : site.bodies[k] = block
    THEN CHOOSE k \in 1..Len(site.bodies) : site.bodies[k] = block
    ELSE 0

TakenAt(site, was, block) ==
    IF block = site.merge \/ block = site.conds[1] THEN 0
    ELSE IF BodyAt(site, block) # 0 THEN BodyAt(site, block)
    ELSE was

Enter(block) ==
    /\ pc' = [block |-> block, at |-> 1]
    /\ taken' = [s \in 1..Len(taken) |-> TakenAt(compile_meta.ifs[s], taken[s], block)]

ExecInstr ==
    /\ AtInstr /\ Current.op \notin Terminators
    /\ pc' = [pc EXCEPT !.at = @ + 1]
    /\ UNCHANGED <<call, pair, outcome, tree, build, todo, compile_meta, status, cond, taken>>

ExecBr ==
    /\ AtInstr /\ Current.op = "br"
    /\ Enter(Current.x)
    /\ UNCHANGED <<call, pair, outcome, tree, build, todo, compile_meta, status, cond>>

ExecCondBrTrue ==
    /\ AtInstr /\ Current.op = "condbr"
    /\ cond' = TRUE
    /\ Enter(Current.x)
    /\ UNCHANGED <<call, pair, outcome, tree, build, todo, compile_meta, status>>

ExecCondBrFalse ==
    /\ AtInstr /\ Current.op = "condbr"
    /\ cond' = FALSE
    /\ Enter(Current.y)
    /\ UNCHANGED <<call, pair, outcome, tree, build, todo, compile_meta, status>>

ExecRet ==
    /\ AtInstr /\ Current.op = "ret"
    /\ status' = "Exited"
    /\ UNCHANGED <<call, pair, outcome, tree, build, todo, compile_meta, pc, cond, taken>>

\* a step of the running program
Execute ==
    \/ ExecInstr
    \/ ExecBr
    \/ ExecCondBrTrue
    \/ ExecCondBrFalse
    \/ ExecRet

CompileNext ==
    \/ CompileStatement
    \/ BuildReturn
    \/ Verify
    \/ WriteToFile
    \/ Link
    \/ Run
    \/ Execute

CompileSpec == CompileInit /\ [][CompileNext]_vars

\* a started program keeps executing until it returns
FairCompileSpec == CompileSpec /\ WF_vars(Execute)

(***************************************************************************)
(* C1: a Number pair with magnitude m and sign s parses to the single term *)
(* Number(m) when s is + or absent and to Number(-m) when s is -.          *)
(***************************************************************************)
SignOf(p) == IF Len(p.inner) = 2 THEN p.inner[1].rule ELSE "absent"

MagnitudeOf(p) == DecimalValue(p.inner[Len(p.inner)].str)

Returned == outcome.kind # "Pending"

C1_SignNormalization ==
    (call = "Term" /\ Returned /\ pair.rule = "Number"
        /\ SignOf(pair) \in {"Add", "Subtract", "absent"})
    => /\ outcome.kind = "Some"
       /\ outcome.value[1] = "Number"
       /\ Len(outcome.value) = 2
       /\ outcome.value[2] = (IF SignOf(pair) = "Subtract"
                              THEN -MagnitudeOf(pair) ELSE MagnitudeOf(pair))

C1_Witness ==
    /\ call = "Term" /\ Returned /\ pair.rule = "Number"
    /\ SignOf(pair) = "Subtract"
    /\ MagnitudeOf(pair) = 42
    /\ outcome.kind = "Some"
    /\ outcome.value = <<"Number", -42>>

(***************************************************************************)
(* C2: a function declaration with two arguments of the same name ends in  *)
(* the syntax error "Duplicate arguments" at the argument list, wherever   *)
(* the two are, and never in that error when the names are distinct.       *)
(***************************************************************************)
ArgNames(p) == [i \in 1..Len(p.inner[3].inner) |-> p.inner[3].inner[i].inner[1].str]

SharesAnIdentifier(names) ==
    \E i, j \in 1..Len(names) : i < j /\ names[i] = names[j]

FunctionKeywords == {<<"d", "e", "b", "u", "g">>, <<"b", "a", "r">>}
VariableKeywords == {<<"b", "a", "r">>}

\* the modifier tokens of a declaration without their trailing white space
Keywords(p) == [i \in 1..Len(p.inner[1].inner) |-> trim_end(p.inner[1].inner[i].str)]

AllIn(keywords, known) == \A i \in 1..Len(keywords) : keywords[i] \in known

DuplicateError(p) == syntax_error("Duplicate arguments", p.inner[3].pos)

\* the claim as stated: whatever the modifiers are
C2_AlwaysAtArgList ==
    (call = "Function" /\ Returned)
    => /\ SharesAnIdentifier(ArgNames(pair)) => outcome = DuplicateError(pair)
       /\ ~SharesAnIdentifier(ArgNames(pair)) => outcome.msg # "Duplicate arguments"

\* amended: the modifiers are resolved first, and an unknown one ends the
\* build before the arguments are looked at
C2_DuplicateArguments ==
    (call = "Function" /\ Returned)
    => /\ (SharesAnIdentifier(ArgNames(pair)) /\ AllIn(Keywords(pair), FunctionKeywords))
            => outcome = DuplicateError(pair)
       /\ (SharesAnIdentifier(ArgNames(pair)) /\ ~AllIn(Keywords(pair), FunctionKeywords))
            => outcome = syntax_error("Invalid modifier", pair.pos)
       /\ ~SharesAnIdentifier(ArgNames(pair)) => outcome.msg # "Duplicate arguments"

\* (a, b, a): the duplicate is not adjacent
C2_Witness ==
    /\ call = "Function" /\ Returned
    /\ ArgNames(pair) = <<(<<"a">>), (<<"b">>), (<<"a">>)>>
    /\ outcome.kind = "SyntaxError"
    /\ outcome.msg = "Duplicate arguments"
    /\ outcome.pos = pair.inner[3].pos
    /\ outcome.pos # pair.pos

(***************************************************************************)
(* C3: a Function with a modifier outside {debug, bar}, or a Variable with *)
(* a modifier outside {bar}, ends in the syntax error "Invalid modifier"   *)
(* at the start of the declaration; when every modifier is in the closed   *)
(* set that error never happens, the rest of a well formed declaration     *)
(* builds, and the modifiers built are debug -> Debug, bar -> Public in    *)
(* list order.  A modifier is its token without trailing white space.      *)
(***************************************************************************)
ModName(keyword) == IF keyword = <<"d", "e", "b", "u", "g">> THEN "Debug" ELSE "Public"

Mapped(keywords) == [i \in 1..Len(keywords) |-> ModName(keywords[i])]

InvalidModifier(p) == syntax_error("Invalid modifier", p.pos)

\* the initializer of a Variable pair builds to an expression
InitializerIsExpr(p) ==
    /\ ParseOne(p.inner[3]).kind = "Some"
    /\ ParseOne(p.inner[3]).value.variant = "Expr"

C3_ModifierClosure ==
    /\ (call = "Function" /\ Returned)
        => IF AllIn(Keywords(pair), FunctionKeywords)
           THEN /\ outcome.msg # "Invalid modifier"
                /\ ~SharesAnIdentifier(ArgNames(pair)) => outcome.kind = "Some"
                /\ outcome.kind = "Some" => outcome.value.modifiers = Mapped(Keywords(pair))
           ELSE outcome = InvalidModifier(pair)
    /\ (call = "Variable" /\ Returned)
        => IF AllIn(Keywords(pair), VariableKeywords)
           THEN /\ outcome.msg # "Invalid modifier"
                /\ InitializerIsExpr(pair) => outcome.kind = "Some"
                /\ outcome.kind = "Some" => outcome.value.modifiers = Mapped(Keywords(pair))
           ELSE outcome = InvalidModifier(pair)

\* "debug bar" builds <<Debug, Public>>
C3_Witness ==
    /\ call = "Function" /\ Returned
    /\ Keywords(pair) = <<(<<"d", "e", "b", "u", "g">>), (<<"b", "a", "r">>)>>
    /\ outcome.kind = "Some"
    /\ outcome.value.modifiers = <<"Debug", "Public">>

\* "bar foo" on a function and "debug" on a variable are refused
C3_WitnessRefused ==
    /\ Returned
    /\ outcome = InvalidModifier(pair)
    /\ \/ call = "Function" /\ Keywords(pair) = <<(<<"b", "a", "r">>), (<<"f", "o", "o">>)>>
       \/ call = "Variable" /\ Keywords(pair) = <<(<<"d", "e", "b", "u", "g">>)>>

(***************************************************************************)
(* C4: an operator chain o1 p1 o2 ... p(n-1) on builds n terms in order    *)
(* with term i holding operand oi.  ConditionalExpr: term i < n carries    *)
(* pi and the last term None.  BinaryExpr: the first term None and term    *)
(* i > 1 carries p(i-1).                                                   *)
(***************************************************************************)
ChainLen(p) == (Len(p.inner) + 1) \div 2
OperandPair(p, i) == p.inner[2 * i - 1]
OperatorTag(p, i) == p.inner[2 * i].inner[1].rule

OperatorName(tag) == IF tag = "Inequality" THEN "AntiEquality" ELSE tag

WellFormedChain(p, tags) ==
    /\ \A i \in 1..ChainLen(p) : OperandPair(p, i).rule \in {"String", "Number", "Ident"}
    /\ \A i \in 1..(ChainLen(p) - 1) : OperatorTag(p, i) \in tags

OperandsInOrder(p, terms) ==
    /\ Len(terms) = ChainLen(p)
    /\ \A i \in 1..ChainLen(p) : terms[i].operand = Term_parse_from(OperandPair(p, i)).value

\* term i < n carries pi, the last term None
OperatorFollows(p, terms) ==
    /\ \A i \in 1..(ChainLen(p) - 1) : terms[i].operator = <<OperatorName(OperatorTag(p, i))>>
    /\ terms[ChainLen(p)].operator = <<>>

\* the first term None, term i > 1 carries p(i-1)
OperatorPrecedes(p, terms) ==
    /\ terms[1].operator = <<>>
    /\ \A i \in 2..ChainLen(p) : terms[i].operator = <<OperatorName(OperatorTag(p, i - 1))>>

KnownMath == {"Add", "Subtract", "Multiply", "Divide", "XOR"}
KnownCond == {"Equality", "Inequality"}

RECURSIVE LeftFold(_, _)
LeftFold(p, n) ==
    IF n = 1 THEN Term_parse_from(OperandPair(p, 1)).value
    ELSE <<OperatorName(OperatorTag(p, n - 1)),
           LeftFold(p, n - 1),
           Term_parse_from(OperandPair(p, n)).value>>

\* the rule of the data model: the operator on term i combines the
\* accumulator with term i + 1, and a None operator ends the evaluation
RECURSIVE EvalNextFrom(_, _, _)
EvalNextFrom(terms, i, acc) ==
    IF i >= Len(terms) \/ terms[i].operator = <<>> THEN acc
    ELSE EvalNextFrom(terms, i + 1, <<terms[i].operator[1], acc, terms[i + 1].operand>>)

EvalNextRule(terms) == EvalNextFrom(terms, 1, terms[1].operand)

\* the operator on term i > 1 combines the accumulator with term i itself
RECURSIVE EvalOwnFrom(_, _, _)
EvalOwnFrom(terms, i, acc) ==
    IF i > Len(terms) \/ terms[i].operator = <<>> THEN acc
    ELSE EvalOwnFrom(terms, i + 1, <<terms[i].operator[1], acc, terms[i].operand>>)

EvalOwnRule(terms) == EvalOwnFrom(terms, 2, terms[1].operand)

IsStatement(v) == ParseOne(v).kind = "Some" /\ ParseOne(v).value.variant # "Expr"

IsExpression(v) == ParseOne(v).kind = "Some" /\ ParseOne(v).value.variant = "Expr"

NotAnExpression(v) == syntax_error("Value is not an expression", v.pos)

\* the sub-tree of a statement pair that has to be an expression
Required(p) ==
    CASE p.rule = "Variable" -> p.inner[3]
      [] p.rule = "Assignment" -> p.inner[2]
      [] OTHER -> p.inner[1]

\* the conditions of an if chain, in order
Conditions(p) ==
    LET cases == SelectSeq(p.inner, LAMBDA x : x.rule \in {"If", "ElseIf"})
    IN  [i \in 1..Len(cases) |-> cases[i].inner[1]]

ChildTags(p) == [i \in 1..Len(p.inner) |-> p.inner[i].rule]

\* at most one Else, and no element after it
ElseLast(tags) == \A i \in 1..Len(tags) : tags[i] = "Else" => i = Len(tags)

\* the children are cases, then at most one Else
IsIfChain(p) ==
    /\ \A i \in 1..Len(p.inner) : p.inner[i].rule \in {"If", "ElseIf", "Else"}
    /\ ElseLast(ChildTags(p))

C10_StatementExpressionBoundary ==
    /\ (/\ call \in {"Variable", "Throw", "Return", "Assignment"} /\ Returned
        /\ call = "Variable" => AllIn(Keywords(pair), VariableKeywords))
        => /\ IsStatement(Required(pair)) => outcome = NotAnExpression(Required(pair))
           /\ IsExpression(Required(pair))
                => /\ outcome.kind = "Some"
                   /\ outcome.value.value = ParseOne(Required(pair)).value.value
    /\ (call = "IfBlock" /\ Returned /\ IsIfChain(pair))
        => /\ \A i \in 1..Len(Conditions(pair)) :
                (/\ IsStatement(Conditions(pair)[i])
                 /\ \A j \in 1..(i - 1) : IsExpression(Conditions(pair)[j]))
                => outcome = NotAnExpression(Conditions(pair)[i])
           /\ (\A i \in 1..Len(Conditions(pair)) : IsExpression(Conditions(pair)[i]))
                => /\ outcome.kind = "Some"
                   /\ \A i \in 1..Len(Conditions(pair)) :
                        outcome.value.if_nodes[i].expr
                            = <<ParseOne(Conditions(pair)[i]).value.value>>

\* a Variable whose initializer is a Break: the error is at the Break, not
\* at the start of the declaration
C10_Witness ==
    /\ call = "Variable" /\ Returned
    /\ Required(pair).rule = "Break"
    /\ outcome.kind = "SyntaxError"
    /\ outcome.msg = "Value is not an expression"
    /\ outcome.pos = Required(pair).pos
    /\ outcome.pos # pair.pos

\* an if chain whose second condition is a Loop, and a Return of a - 5
C10_WitnessElseIf ==
    /\ call = "IfBlock" /\ Returned
    /\ Len(Conditions(pair)) = 2
    /\ IsExpression(Conditions(pair)[1])
    /\ Conditions(pair)[2].rule = "Loop"
    /\ outcome = NotAnExpression(Conditions(pair)[2])
    /\ outcome.pos > Conditions(pair)[1].pos

(***************************************************************************)
(* The tree read in lowering order, for C6-C9: its Breaks with the loop    *)
(* that lexically encloses each (loops numbered in the order they open, 0  *)
(* for none), its reads and declarations, its statements with no lowering  *)
(* rule, and for each if chain whether no Break and no Loop is nested in   *)
(* it.                                                                     *)
(***************************************************************************)
Item(what, name, encl) == [what |-> what, name |-> name, encl |-> encl]

Add(acc, item) == [acc EXCEPT !.items = Append(@, item)]

Reads(names, acc) ==
    [acc EXCEPT !.items = @ \o [i \in 1..Len(names) |-> Item("Ref", names[i], 0)]]

RECURSIVE ItemsOfTree(_, _, _)
RECURSIVE ItemsOfNode(_, _, _)
RECURSIVE ItemsOfIfNodes(_, _, _)

ItemsOfTree(nodes, encl, acc) ==
    IF nodes = <<>> THEN acc
    ELSE ItemsOfTree(Tail(nodes), encl, ItemsOfNode(nodes[1], encl, acc))

ItemsOfIfNodes(if_nodes, encl, acc) ==
    IF if_nodes = <<>> THEN acc
    ELSE ItemsOfIfNodes(Tail(if_nodes), encl,
                        ItemsOfTree(if_nodes[1].body, encl, Reads(if_nodes[1].refs, acc)))

ItemsOfNode(node, encl, acc) ==
    CASE node.kind = "Loop" ->
            ItemsOfTree(node.body, acc.loops + 1, [acc EXCEPT !.loops = @ + 1])
      [] node.kind = "Break" -> Add(acc, Item("Break", "", encl))
      [] node.kind = "Call" -> Reads(node.refs, acc)
      [] node.kind = "Variable" -> Add(Reads(node.refs, acc), Item("Decl", node.ident, 0))
      [] node.kind = "If" -> ItemsOfIfNodes(node.if_nodes, encl, acc)
      [] node.kind = "Expr" -> Add(acc, Item("Expr", "", 0))
      [] OTHER -> Add(acc, Item("Todo", "", 0))

Items(nodes) == ItemsOfTree(nodes, 0, [items |-> <<>>, loops |-> 0]).items

Only(items, whats) == SelectSeq(items, LAMBDA it : it.what \in whats)

\* item i is one the compile cannot get past
Offends(items, i) ==
    \/ items[i].what \in {"Todo", "Expr"}
    \/ items[i].what = "Break" /\ items[i].encl = 0
    \/ /\ items[i].what = "Ref"
       /\ \A j \in 1..(i - 1) : ~(items[j].what = "Decl" /\ items[j].name = items[i].name)

Offenders(items) == {i \in 1..Len(items) : Offends(items, i)}

FirstOffender(items) ==
    CHOOSE i \in Offenders(items) : \A j \in Offenders(items) : i <= j

ErrorOf(item) ==
    CASE item.what = "Todo" -> [kind |-> "Panic", msg |-> "not yet implemented"]
      [] item.what = "Expr" -> [kind |-> "Bug", msg |-> "EXPR_IS_STATEMENT_COMPILER"]
      [] item.what = "Break" -> [kind |-> "ControlFlowIntegrity", msg |-> "break outside loop"]
      [] item.what = "Ref" -> [kind |-> "ControlFlowIntegrity", msg |-> "unbound identifier"]

\* the compile of the tree is over
Compiled == status \notin {"Idle", "Compiling"}

Block(b) == compile_meta.blocks[b]

TerminatorsOf(b) == SelectSeq(Block(b), LAMBDA in : in.op \in Terminators)

(***************************************************************************)
(* C7: the block a Break inside a loop is lowered in ends with an          *)
(* unconditional branch, its only terminator, to the block the cursor is   *)
(* at after the nearest enclosing Loop: not a header, not the exit of      *)
(* another loop, not the merge block of an if chain.                       *)
(***************************************************************************)
BreaksOf(nodes) == Only(Items(nodes), {"Break"})

BreakTarget(k) == Block(compile_meta.breaks[k])[Len(Block(compile_meta.breaks[k]))]

HasStrayBreak(nodes) ==
    \E i \in 1..Len(Items(nodes)) :
        Items(nodes)[i].what = "Break" /\ Items(nodes)[i].encl = 0

BreakOutsideLoop == [kind |-> "ControlFlowIntegrity", msg |-> "break outside loop"]

\* the Breaks lowered before the compile ended
BranchesToExits ==
    Len(Only(SubSeq(Items(tree), 1, FirstOffender(Items(tree)) - 1), {"Break"}))

Events == compile_meta.events

IsDecl(events, j, name) == events[j].ev = "decl" /\ events[j].name = name

Declared(events, name, i) == \E j \in 1..(i - 1) : IsDecl(events, j, name)

\* the slot of the latest declaration of name among the first i - 1 events
LatestSlot(events, name, i) ==
    events[CHOOSE j \in 1..(i - 1) :
                /\ IsDecl(events, j, name)
                /\ \A l \in (j + 1)..(i - 1) : ~IsDecl(events, l, name)].slot

\* the events are the reads and declarations of the tree, in lowering order
InLoweringOrder(events, items) ==
    /\ Len(events) <= Len(items)
    /\ \A i \in 1..Len(events) :
        /\ events[i].name = items[i].name
        /\ (events[i].ev = "decl") = (items[i].what = "Decl")

C9_Scope ==
    status # "Idle" =>
        /\ InLoweringOrder(Events, Only(Items(tree), {"Ref", "Decl"}))
        /\ \A i, j \in 1..Len(Events) :
            (i < j /\ Events[i].ev = "decl" /\ Events[j].ev = "decl")
                => Events[i].slot # Events[j].slot
        /\ \A i \in 1..Len(Events) :
            Events[i].ev = "ref"
                => /\ Declared(Events, Events[i].name, i)
                   /\ Events[i].slot = LatestSlot(Events, Events[i].name, i)
        /\ DOMAIN compile_meta.function_scope.variables
                = {Events[i].name : i \in {j \in 1..Len(Events) : Events[j].ev = "decl"}}
        /\ \A name \in DOMAIN compile_meta.function_scope.variables :
            compile_meta.function_scope.variables[name]
                = LatestSlot(Events, name, Len(Events) + 1)

\* nothing lowered changes afterwards
C9_Kept ==
    status # "Idle" =>
        /\ SubSeq(compile_meta.events', 1, Len(Events)) = Events
        /\ Len(compile_meta.blocks') >= Len(compile_meta.blocks)
        /\ \A b \in 1..Len(compile_meta.blocks) :
            SubSeq(compile_meta.blocks'[b], 1, Len(Block(b))) = Block(b)

C9_ScopeShadowing == []C9_Scope /\ [][C9_Kept]_vars

\* x declared, read, declared again, read again
C9_Witness ==
    /\ status = "Built"
    /\ Len(tree) = 4
    /\ Events = <<[ev |-> "decl", name |-> "x", slot |-> 1],
                  [ev |-> "ref", name |-> "x", slot |-> 1],
                  [ev |-> "decl", name |-> "x", slot |-> 2],
                  [ev |-> "ref", name |-> "x", slot |-> 2]>>
    /\ compile_meta.function_scope.variables["x"] = 2

(***************************************************************************)
(* C6: in a run of the built program, the conditions of an if chain are    *)
(* evaluated left to right; a true condition enters the body of its case   *)
(* and a false one goes to the next condition, else to the Else body, else *)
(* to the merge block; once in a body the run enters no other body and no  *)
(* later condition of the chain; the cursor after the chain is its merge   *)
(* block; and when no Break and no Loop is nested in the chain, the run    *)
(* leaves the chain, and only into its merge block.                        *)
(***************************************************************************)
RECURSIVE TreeJumps(_)
RECURSIVE NodeJumps(_)
TreeJumps(nodes) == \E i \in 1..Len(nodes) : NodeJumps(nodes[i])
NodeJumps(node) ==
    \/ node.kind \in {"Break", "Loop"}
    \/ \E k \in 1..Len(node.if_nodes) : TreeJumps(node.if_nodes[k].body)

RECURSIVE Flat(_)
Flat(seqs) == IF seqs = <<>> THEN <<>> ELSE seqs[1] \o Flat(Tail(seqs))

\* the if chains of a tree in the order they are lowered
RECURSIVE IfsOfTree(_)
RECURSIVE IfsOfNode(_)
IfsOfTree(nodes) == Flat([i \in 1..Len(nodes) |-> IfsOfNode(nodes[i])])
IfsOfNode(node) ==
    CASE node.kind = "Loop" -> IfsOfTree(node.body)
      [] node.kind = "If" ->
            <<node>> \o Flat([k \in 1..Len(node.if_nodes) |-> IfsOfTree(node.if_nodes[k].body)])
      [] OTHER -> <<>>

Sites == 1..(MaxNest + MaxStmts)

Site(s) == compile_meta.ifs[s]

Running(s) == status = "Running" /\ s <= Len(compile_meta.ifs)

Straight(s) == ~NodeJumps(IfsOfTree(tree)[s])

\* where a false condition k of the chain leads
NextOnFalse(site, k) ==
    IF k < Len(site.conds) THEN site.conds[k + 1]
    ELSE IF Len(site.bodies) > Len(site.conds) THEN site.bodies[Len(site.conds) + 1]
    ELSE site.merge

\* a step of the run that leaves the block it is in
Leaves == status = "Running" /\ status' = "Running" /\ pc'.block # pc.block

InChain(s) ==
    /\ Running(s)
    /\ \/ taken[s] # 0
       \/ \E k \in 1..Len(Site(s).conds) : pc.block = Site(s).conds[k]

AtMerge(s) == Running(s) /\ pc.block = Site(s).merge

\* the conditions in order, the body of the first true one, no other
C6_Step ==
    \A s \in Sites :
        (Running(s) /\ Leaves) =>
            /\ \A k \in 1..Len(Site(s).conds) :
                (pc.block = Site(s).conds[k] /\ Current.op = "condbr")
                    => pc'.block = (IF cond' THEN Site(s).bodies[k]
                                    ELSE NextOnFalse(Site(s), k))
            /\ taken[s] # 0
                => /\ \A k \in 1..Len(Site(s).bodies) : pc'.block # Site(s).bodies[k]
                   /\ \A k \in 2..Len(Site(s).conds) : pc'.block # Site(s).conds[k]

\* a run that is in chain s and then is not
Left(s) == InChain(s) /\ ~InChain(s)'

\* a tree that is one if chain: the return cook adds is in its merge block
C6_CursorAfter ==
    (status = "Built" /\ Len(tree) = 1 /\ tree[1].kind = "If")
    => /\ compile_meta.basic_block = Site(1).merge
       /\ Block(Site(1).merge) = <<Instr("ret", 0, 0)>>

\* the claim as stated: every chain is left into its merge block, and left
C6_AlwaysReachesMerge ==
    /\ []C6_CursorAfter
    /\ [][C6_Step]_vars
    /\ [][\A s \in Sites : Left(s) => AtMerge(s)']_vars
    /\ []<>(\A s \in Sites : ~InChain(s))

C6_IfChainShortCircuit ==
    /\ []C6_CursorAfter
    /\ [][C6_Step]_vars
    /\ [][\A s \in Sites : (Left(s) /\ Straight(s)) => AtMerge(s)']_vars
    /\ []<>(\A s \in Sites : ~(InChain(s) /\ Straight(s)))

\* C1 false, C2 true with a C3 and an Else behind it: the run is in C2's body
C6_Witness ==
    /\ Running(1)
    /\ Len(Site(1).conds) = 3 /\ Len(Site(1).bodies) = 4
    /\ pc.block = Site(1).bodies[2]
    /\ taken[1] = 2
    /\ cond = TRUE
    /\ Straight(1)

(***************************************************************************)
(* C11: a failed verification is reported (the header, then every line of  *)
(* the message in order, last in the log) and ends the run with no file    *)
(* written and nothing linked; a file is written, and linked, only after a *)
(* verification that succeeded; the module is verified only when the whole *)
(* Tree is compiled and the cursor's block ends with the return cook adds; *)
(* and a run that was aborted takes no further step.                       *)
(***************************************************************************)
VerifyFailed == status # "Idle" /\ build.verify # <<>> /\ build.verify[1] = "Err"

\* the log ends with the report of the message
Reported(lines) ==
    /\ Len(build.log) >= Len(lines) + 1
    /\ SubSeq(build.log, Len(build.log) - Len(lines), Len(build.log))
            = <<"Module verification failed">> \o lines

C11_Surfaced ==
    VerifyFailed
    => /\ status = "Aborted"
       /\ Reported(build.verify[2])
       /\ build.written = <<>> /\ ~build.linked

C11_ArtifactOnlyVerified ==
    (status # "Idle" /\ (build.written # <<>> \/ build.linked))
    => /\ build.verify = <<"Ok">>
       /\ build.linked => build.written # <<>>

C11_VerifiedWhenBuilt ==
    (status # "Idle" /\ build.verify # <<>>)
    => /\ todo = <<>> /\ ~Failed(compile_meta)
       /\ Block(compile_meta.basic_block) # <<>>
       /\ Block(compile_meta.basic_block)[Len(Block(compile_meta.basic_block))]
            = Instr("ret", 0, 0)

C11_VerificationFatal ==
    /\ [](C11_Surfaced /\ C11_ArtifactOnlyVerified /\ C11_VerifiedWhenBuilt)
    /\ [][status # "Aborted"]_vars

\* a two-line message, with the module printed first: reported, nothing written
C11_Witness ==
    /\ status = "Aborted"
    /\ build.verify = <<"Err", <<"l1", "l2">>>>
    /\ build.log = <<"ir", "Module verification failed", "l1", "l2">>
    /\ build.error = [kind |-> "Error", msg |-> "l2"]
    /\ build.written = <<>> /\ ~build.linked

\* a verified module, written as assembly and linked
C11_WitnessLinked ==
    /\ status = "Linked"
    /\ build.verify = <<"Ok">>
    /\ build.written = <<"Assembly">> /\ build.linked

(***************************************************************************)
(* C12: a Function or Variable declaration with an unrecognized modifier   *)
(* ends in the syntax error "Invalid modifier" at the position of the      *)
(* first modifier token that is not recognized, which for a token after    *)
(* the first is not the start of the declaration.                          *)
(***************************************************************************)
KnownKeywords(c) == IF c = "Function" THEN FunctionKeywords ELSE VariableKeywords

\* the first modifier token of the declaration that is not recognized
FirstRejected(p, known) ==
    p.inner[1].inner[CHOOSE i \in 1..Len(Keywords(p)) :
                        /\ Keywords(p)[i] \notin known
                        /\ \A j \in 1..(i - 1) : Keywords(p)[j] \in known]

C12_ModifierErrorPosition ==
    (/\ call \in {"Function", "Variable"} /\ Returned
     /\ ~AllIn(Keywords(pair), KnownKeywords(call)))
    => outcome = syntax_error("Invalid modifier",
                              FirstRejected(pair, KnownKeywords(call)).pos)

(***************************************************************************)
(* C13: Term::parse_from never returns 'no value', whatever the rule of    *)
(* the pair, and a caller that takes a term (a Call argument, an Import    *)
(* path, the terms of an IndexExpr, an operand of a BinaryExpr or a        *)
(* ConditionalExpr) ends with a value or with a syntax or internal-bug     *)
(* error, never in a panic.                                                *)
(***************************************************************************)
TermCallers == {"Call", "Import", "IndexExpr", "BinaryExpr", "ConditionalExpr"}

Diagnosed == {"SyntaxError", "Bug"}

C13_TermTotality ==
    /\ (call = "Term" /\ Returned) => outcome.kind \in {"Some"} \cup Diagnosed
    /\ (call \in TermCallers /\ Returned) => outcome.kind \in {"Some"} \cup Diagnosed

(***************************************************************************)
(* C14: every way a build ends is in exactly one of two classes.  A        *)
(* failure caused by the input (duplicate arguments, an unknown modifier,  *)
(* a value that is not an expression) is a syntax error with a position;   *)
(* a failure at a rule tag the builder has no case for (an operator, a     *)
(* sign, an if node, a catch that starts with neither a block nor an       *)
(* identifier, an index term) is an internal-bug error; no build ends any  *)
(* other way.                                                              *)
(***************************************************************************)
UserFailures == {"Duplicate arguments", "Invalid modifier", "Value is not an expression"}

NoCaseFailures ==
    {"UNKNOWN_OPERATOR", "UNKNOWN_COND_OPERATOR", "INVALID_SIGN", "INVALID_IFNODE",
     "CATCH_NOT_BLOCK_OR_IDENT", "INVALID_INDEX_TERM"}

\* the input has one of the user's mistakes
UserCause ==
    \/ call = "Function"
        /\ (~AllIn(Keywords(pair), FunctionKeywords) \/ SharesAnIdentifier(ArgNames(pair)))
    \/ call = "Variable"
        /\ (~AllIn(Keywords(pair), VariableKeywords) \/ IsStatement(Required(pair)))
    \/ call \in {"Throw", "Return", "Assignment"} /\ IsStatement(Required(pair))

\* the input has a tag its builder has no case for: the first child of a
\* catch, the index of an IndexExpr whose term is a term
NoCase ==
    \/ call = "TryCatch"
        /\ pair.inner[2].inner # <<>>
        /\ pair.inner[2].inner[1].rule \notin {"Block", "Ident"}
    \/ call = "IndexExpr"
        /\ pair.inner[1].rule \in {"String", "Number", "Ident"}
        /\ pair.inner[2].rule \notin {"String", "Number"}

C14_ErrorClasses ==
    Returned
    => /\ Aborted(outcome) => outcome.kind \in Diagnosed
       /\ outcome.kind = "SyntaxError" => outcome.msg \in UserFailures
       /\ outcome.kind = "Bug" => outcome.msg \in NoCaseFailures
       /\ UserCause => outcome.kind = "SyntaxError"
       /\ NoCase => outcome.kind = "Bug"

(***************************************************************************)
(* C16: IfBlock::parse_from gives one if node per child, in the order of   *)
(* the children: a Case for an If or an ElseIf, an Else for an Else.  The  *)
(* result has an Else exactly where the children have one, so it has at    *)
(* most one Else, in last place, when and only when the children do.  The  *)
(* first child that cannot be built ends the build: with an internal-bug   *)
(* error at a child of another tag, with a syntax error at a condition     *)
(* that is a statement (every condition being a sub-tree with a node).     *)
(***************************************************************************)
NodeTag(rule) == IF rule = "Else" THEN "Else" ELSE "Case"

\* the child cannot be built
BadChild(x) ==
    \/ x.rule \notin {"If", "ElseIf", "Else"}
    \/ x.rule \in {"If", "ElseIf"} /\ IsStatement(x.inner[1])

FirstBad(p) ==
    CHOOSE i \in 1..Len(p.inner) :
        BadChild(p.inner[i]) /\ \A j \in 1..(i - 1) : ~BadChild(p.inner[j])

OnePerChild(p, if_nodes) ==
    /\ Len(if_nodes) = Len(p.inner)
    /\ \A i \in 1..Len(p.inner) :
        /\ if_nodes[i].tag = NodeTag(p.inner[i].rule)
        /\ if_nodes[i].tag = "Case"
            => if_nodes[i].expr = <<ParseOne(p.inner[i].inner[1]).value.value>>

ResultTags(if_nodes) == [i \in 1..Len(if_nodes) |-> if_nodes[i].tag]

C16_WitnessElseFirst ==
    /\ call = "IfBlock" /\ Returned
    /\ ChildTags(pair) = <<"Else", "If">>
    /\ outcome.kind = "Some"
    /\ ResultTags(outcome.value.if_nodes) = <<"Else", "Case">>

\* a Loop after a case: the build ends with the internal-bug error
C16_WitnessOtherTag ==
    /\ call = "IfBlock" /\ Returned
    /\ ChildTags(pair) = <<"If", "Loop">>
    /\ outcome = bug("INVALID_IFNODE")

(***************************************************************************)
(* C15: compile lowers the statements of the tree in order, one at a time  *)
(* and each once: what is left to lower is always the rest of the tree,    *)
(* and what has been lowered (loops opened, Breaks branched, variables      *)
(* declared) is what the statements taken so far hold, read in order, up   *)
(* to the first one that cannot be lowered.  At an Expr or a statement of  *)
(* a kind with no lowering rule the compile ends there with an error       *)
(* (the bug EXPR_IS_STATEMENT_COMPILER, the panic of todo!()), nothing is  *)
(* emitted for that statement, and no step follows.                        *)
(***************************************************************************)
\* the statements compile has taken so far
Taken == SubSeq(tree, 1, Len(tree) - Len(todo))

Stops(node) == node.kind \in TodoKinds \cup {"Expr"}

ExplicitFailure(node) ==
    IF node.kind = "Expr" THEN [kind |-> "Bug", msg |-> "EXPR_IS_STATEMENT_COMPILER"]
    ELSE [kind |-> "Panic", msg |-> "not yet implemented"]

\* the items lowered: all of them, or those ahead of the first offender
LoweredItems(items) ==
    IF Offenders(items) = {} THEN items ELSE SubSeq(items, 1, FirstOffender(items) - 1)

Declarations == SelectSeq(compile_meta.events, LAMBDA e : e.ev = "decl")

C15_InTreeOrder ==
    status # "Idle"
    => /\ Len(todo) <= Len(tree)
       /\ todo = SubSeq(tree, Len(tree) - Len(todo) + 1, Len(tree))
       /\ Failed(compile_meta) <=> Offenders(Items(Taken)) # {}
       /\ Failed(compile_meta)
            => compile_meta.error = ErrorOf(Items(Taken)[FirstOffender(Items(Taken))])
       /\ Len(compile_meta.breaks) = Len(Only(LoweredItems(Items(Taken)), {"Break"}))
       /\ [i \in 1..Len(Declarations) |-> Declarations[i].name]
            = [i \in 1..Len(Only(LoweredItems(Items(Taken)), {"Decl"})) |->
                    Only(LoweredItems(Items(Taken)), {"Decl"})[i].name]

\* a step of compile takes the head of what is left, and only that
C15_OneAtATime ==
    todo' # todo => (status = "Compiling" /\ todo # <<>> /\ todo' = Tail(todo))

\* at a statement compile_one has no lowering for, the compile ends
C15_FailFast ==
    (status = "Compiling" /\ todo # <<>> /\ Stops(Head(todo)) /\ todo' # todo)
    => /\ status' = "Aborted"
       /\ compile_meta'.error = ExplicitFailure(Head(todo))
       /\ compile_meta'.blocks = compile_meta.blocks
       /\ compile_meta'.events = compile_meta.events

C15_SequentialLowering ==
    /\ []C15_InTreeOrder
    /\ [][C15_OneAtATime /\ C15_FailFast]_vars
    /\ [][status = "Aborted" => todo' = todo /\ compile_meta' = compile_meta]_vars

\* let x; return; let y = x: x is declared, the Return ends the compile, y
\* is never declared
C15_Witness ==
    /\ status = "Aborted"
    /\ Len(tree) = 3 /\ tree[2].kind = "Return" /\ tree[3].kind = "Variable"
    /\ todo = <<tree[3]>>
    /\ compile_meta.error = [kind |-> "Panic", msg |-> "not yet implemented"]
    /\ Len(Declarations) = 1 /\ Declarations[1].name = "x"

\* loop { let x; <expr>; break } let y: the compile ends inside the loop
C15_WitnessNested ==
    /\ status = "Aborted"
    /\ Len(tree) = 2 /\ tree[1].kind = "Loop" /\ tree[1].body[2].kind = "Expr"
    /\ todo = <<tree[2]>>
    /\ compile_meta.error = [kind |-> "Bug", msg |-> "EXPR_IS_STATEMENT_COMPILER"]
    /\ Len(Declarations) = 1 /\ compile_meta.breaks = <<>>

====
